---- MODULE Spec2Model ----
(***************************************************************************)
(* Model of the two simulation engines of bio_course_proj_ui:              *)
(*   ui_advance.py  initialize_network / run_simulation (network SIR)      *)
(*   ui_basic.py    sirv_ode and its helpers (SIRV right-hand side)        *)
(*                                                                         *)
(* Probabilities are fixed-point numbers in units of 1/Scale; a draw of    *)
(* random.random() is a value d in 0..Scale-1 standing for d/Scale, so     *)
(* `random.random() < x` is d < x.  Python dicts live in a heap of         *)
(* objects addressed by reference (an index into heap, 0 for a name not    *)
(* yet bound), so that dict.copy() and in-place assignment differ.         *)
(***************************************************************************)
EXTENDS Integers, Sequences, FiniteSets, TLC

VARIABLES pc, G, in_n, in_frac, heap, init_status,
          status0, beta, gamma, max_steps, curr, history, t,
          y, params, dy

vars == <<pc, G, in_n, in_frac, heap, init_status,
          status0, beta, gamma, max_steps, curr, history, t,
          y, params, dy>>

netVars == <<G, in_n, in_frac, heap, init_status,
             status0, beta, gamma, max_steps, curr, history, t>>

odeVars == <<y, params, dy>>

(* ---------------------------- bounds ----------------------------------- *)
MaxNodes == 2
MaxInitNodes == 3
MaxSteps == 0
Scale == 2
MaxPop == 1
MaxInt == 1

(* ------------------------- program constants --------------------------- *)
HorizonFactor == 5

NoGraph == [n |-> 0, edges |-> {}]

Draws == 0 .. (Scale - 1)
(* valid probabilities: zero, a value strictly between, and one *)
Probs == {0, 1, Scale}
ProbArgs == (0 - 1) .. (Scale + 1)
ValidProb(x) == x >= 0 /\ x <= Scale

(* ------------------------------ helpers -------------------------------- *)
Max(a, b) == IF a >= b THEN a ELSE b

MinOf(S) == CHOOSE x \in S : \A z \in S : x <= z

RECURSIVE SetToSeq(_)
SetToSeq(S) == IF S = {} THEN <<>>
               ELSE <<MinOf(S)>> \o SetToSeq(S \ {MinOf(S)})

(* Python int(): truncation toward zero of num/den, den > 0 *)
TruncDiv(num, den) == IF num >= 0 THEN num \div den ELSE 0 - ((0 - num) \div den)

(* Python round(): nearest integer, ties to even, of num/den, den > 0 *)
RoundDiv(num, den) ==
    LET fl == num \div den
        r2 == 2 * (num - fl * den)
    IN  IF r2 < den THEN fl
        ELSE IF r2 > den THEN fl + 1
        ELSE IF fl % 2 = 0 THEN fl ELSE fl + 1

(* ------------------------------ graph ---------------------------------- *)
NodesOf(n) == 0 .. (n - 1)

AllPairs(n) == { {u, v} : u \in NodesOf(n), v \in NodesOf(n) } \ { {u} : u \in NodesOf(n) }

(* nx.erdos_renyi_graph(n, p): every unordered pair independently with     *)
(* probability p; p <= 0 gives no edge, p >= 1 the complete graph.         *)
ErdosRenyi(n, p) ==
    IF p <= 0 THEN { {} }
    ELSE IF p >= Scale THEN { AllPairs(n) }
    ELSE SUBSET AllPairs(n)

Nodes == NodesOf(G.n)

Neighbors(node) == { v \in Nodes : {node, v} \in G.edges }

NodeOrder == SetToSeq(Nodes)

NbrOrder(node) == SetToSeq(Neighbors(node))

(* --------------------------- initialize_network ------------------------ *)
InfectedCountRounded(n, frac) == Max(1, RoundDiv(frac * n, Scale))

InfectedCount(n, frac) == Max(1, TruncDiv(frac * n, Scale))

(* random.sample(population, k): the k-subsets; ValueError when k > n *)
SampleFails(n, k) == k > n \/ k < 0

Samples(n, k) == { S \in SUBSET NodesOf(n) : Cardinality(S) = k }

InitialStatus(n, infected) == [node \in NodesOf(n) |-> IF node \in infected THEN "I" ELSE "S"]

Initialize(n, p, frac) ==
    /\ pc = "start"
    /\ in_n' = n /\ in_frac' = frac
    /\ IF SampleFails(n, InfectedCount(n, frac))
       THEN /\ pc' = "error"
            /\ UNCHANGED <<G, heap, init_status>>
       ELSE \E edges \in ErdosRenyi(n, p), infected \in Samples(n, InfectedCount(n, frac)) :
            /\ G' = [n |-> n, edges |-> edges]
            /\ heap' = Append(heap, InitialStatus(n, infected))
            /\ init_status' = Len(heap) + 1
            /\ pc' = "initialized"
    /\ UNCHANGED <<status0, beta, gamma, max_steps, curr, history, t>>
    /\ UNCHANGED odeVars

(* ----------------------------- run_simulation -------------------------- *)
(* dict.copy(): a fresh object with the same contents *)
CopyDict(h, r) == [heap |-> Append(h, h[r]), ref |-> Len(h) + 1]

AliasDict(h, r) == [heap |-> h, ref |-> r]

(* line 34: new = curr.copy() *)
NewDict(h, c) == CopyDict(h, c)

(* line 38: random.random() < gamma *)
RecoversInclusive(d, g) == d <= g

Recovers(d, g) == d < g

(* line 43: random.random() < beta *)
TransmitsInclusive(d, b) == d <= b

Transmits(d, b) == d < b

(* line 36: curr[node] == 'I' *)
IsInfectedInNew(h, c, nw, node) == h[nw][node] = "I"

IsNotSusceptible(h, c, nw, node) == h[c][node] # "S"

IsInfected(h, c, nw, node) == h[c][node] = "I"

(* line 43: curr[nbr] == 'S' *)
IsNotInfected(h, c, nbr) == h[c][nbr] # "I"

IsSusceptible(h, c, nbr) == h[c][nbr] = "S"

(* line 32: range((max_steps + 1)*5) *)
LoopRangeExposed(m) == m + 1

LoopRange(m) == (m + 1) * HorizonFactor

(* lines 42-44: the loop over G.neighbors(node); the set of heaps the     *)
(* draws can produce                                                      *)
RECURSIVE InfectNbrs(_, _, _, _, _)
InfectNbrs(nbrs, h, c, nw, b) ==
    IF nbrs = <<>> THEN {h}
    ELSE LET nbr == Head(nbrs)
             outs == IF IsSusceptible(h, c, nbr)
                     THEN { IF Transmits(d, b) THEN [h EXCEPT ![nw][nbr] = "I"] ELSE h : d \in Draws }
                     ELSE {h}
         IN  UNION { InfectNbrs(Tail(nbrs), h2, c, nw, b) : h2 \in outs }

(* lines 36-44: the body of the loop over G.nodes() for one node *)
VisitNode(node, h, c, nw, b, g) ==
    IF IsInfected(h, c, nw, node)
    THEN UNION { IF Recovers(d, g)
                 THEN { [h EXCEPT ![nw][node] = "R"] }
                 ELSE InfectNbrs(NbrOrder(node), h, c, nw, b) : d \in Draws }
    ELSE {h}

(* lines 35-44: the loop over G.nodes() in the given visiting order *)
RECURSIVE VisitAll(_, _, _, _, _, _)
VisitAll(order, h, c, nw, b, g) ==
    IF order = <<>> THEN {h}
    ELSE UNION { VisitAll(Tail(order), h2, c, nw, b, g) : h2 \in VisitNode(Head(order), h, c, nw, b, g) }

(* lines 34-44: the heaps one iteration can end in, new allocated from h *)
StepHeaps(order, h, c, b, g) ==
    LET a == NewDict(h, c)
    IN  VisitAll(order, a.heap, c, a.ref, b, g)

StepRef(h, c) == NewDict(h, c).ref

(* the next snapshots one step can produce from snapshot s *)
StepResults(order, s, b, g) == { h2[StepRef(<<s>>, 1)] : h2 \in StepHeaps(order, <<s>>, 1, b, g) }

(* lines 30-31 *)
RunBegin(b, g, m) ==
    /\ pc = "initialized"
    /\ status0' = init_status
    /\ beta' = b /\ gamma' = g /\ max_steps' = m
    /\ history' = <<>>
    /\ LET a == CopyDict(heap, init_status)
       IN  heap' = a.heap /\ curr' = a.ref
    /\ t' = 0
    /\ pc' = "running"
    /\ UNCHANGED <<G, in_n, in_frac, init_status>>
    /\ UNCHANGED odeVars

(* lines 32-45: one iteration of the for loop *)
RunIterate ==
    /\ pc = "running"
    /\ t < LoopRange(max_steps)
    /\ LET a == CopyDict(heap, curr)
       IN  /\ history' = Append(history, a.ref)
           /\ \E h2 \in StepHeaps(NodeOrder, a.heap, curr, beta, gamma) :
                 /\ heap' = h2
                 /\ curr' = StepRef(a.heap, curr)
    /\ t' = t + 1
    /\ UNCHANGED <<pc, G, in_n, in_frac, init_status, status0, beta, gamma, max_steps>>
    /\ UNCHANGED odeVars

(* line 46 *)
RunReturn ==
    /\ pc = "running"
    /\ t >= LoopRange(max_steps)
    /\ pc' = "done"
    /\ UNCHANGED netVars
    /\ UNCHANGED odeVars


(* ------------------------- exact rational arithmetic ------------------- *)
Abs(a) == IF a >= 0 THEN a ELSE 0 - a

RECURSIVE GCD(_, _)
GCD(a, b) == IF b = 0 THEN a ELSE GCD(b, a % b)

Rat(n, d) ==
    LET s == IF d < 0 THEN 0 - 1 ELSE 1
        g == GCD(Abs(n), Abs(d))
    IN  [n |-> (s * n) \div g, d |-> (s * d) \div g]

Whole(k) == [n |-> k, d |-> 1]

RAdd(a, b) == Rat(a.n * b.d + b.n * a.d, a.d * b.d)
RNeg(a) == [n |-> 0 - a.n, d |-> a.d]
RSub(a, b) == RAdd(a, RNeg(b))
RMul(a, b) == Rat(a.n * b.n, a.d * b.d)
RDiv(a, b) == Rat(a.n * b.d, a.d * b.n)
RMax(a, b) == IF a.n * b.d >= b.n * a.d THEN a ELSE b

(* ------------------------------ ui_basic.py ---------------------------- *)
virus_survival_factor(temperature_c, T0, alpha) ==
    RAdd(Whole(1), RMul(alpha, RMax(Whole(0), RSub(T0, temperature_c))))

mobility_factor(mobility_index) == mobility_index

effective_beta(base_beta, temp, mob, T0, alpha) ==
    RMul(RMul(base_beta, virus_survival_factor(temp, T0, alpha)), mobility_factor(mob))

PopulationOf(st) == RAdd(RAdd(RAdd(st.Su, st.Sv), st.I), st.R)

sirv_ode_unvaccinated_only(st, prm) ==
    LET N == PopulationOf(st)
        b == effective_beta(prm.base_beta, prm.temperature_c, prm.mobility_index, prm.T0, prm.alpha)
        lambda_u == RDiv(RMul(b, st.I), N)
        lambda_v == RMul(lambda_u, RSub(Whole(1), prm.vaccine_efficacy))
    IN  [dSu |-> RNeg(RMul(lambda_u, st.Su)),
         dSv |-> RNeg(RMul(lambda_v, st.Sv)),
         dI  |-> RSub(RMul(lambda_u, st.Su), RMul(prm.gamma, st.I)),
         dR  |-> RMul(prm.gamma, st.I)]

sirv_ode(st, prm) ==
    LET N == PopulationOf(st)
        b == effective_beta(prm.base_beta, prm.temperature_c, prm.mobility_index, prm.T0, prm.alpha)
        lambda_u == RDiv(RMul(b, st.I), N)
        lambda_v == RMul(lambda_u, RSub(Whole(1), prm.vaccine_efficacy))
    IN  [dSu |-> RNeg(RMul(lambda_u, st.Su)),
         dSv |-> RNeg(RMul(lambda_v, st.Sv)),
         dI  |-> RSub(RAdd(RMul(lambda_u, st.Su), RMul(lambda_v, st.Sv)), RMul(prm.gamma, st.I)),
         dR  |-> RMul(prm.gamma, st.I)]

NoDeriv == [dSu |-> Whole(0), dSv |-> Whole(0), dI |-> Whole(0), dR |-> Whole(0)]

NoState == [Su |-> Whole(0), Sv |-> Whole(0), I |-> Whole(0), R |-> Whole(0)]

NoParams == [base_beta |-> Whole(0), gamma |-> Whole(0), vaccine_efficacy |-> Whole(0),
             temperature_c |-> Whole(0), mobility_index |-> Whole(0), T0 |-> Whole(0), alpha |-> Whole(0)]

Pops == { Whole(k) : k \in (0 - 1) .. MaxPop }
Fracs == { Rat(k, Scale) : k \in 0 .. Scale }
Ints == { Whole(k) : k \in 0 .. MaxInt }

OdeStates == [Su : Pops, Sv : Pops, I : Pops, R : Pops]

OdeParams == [base_beta : Fracs, gamma : Fracs, vaccine_efficacy : Fracs,
              temperature_c : Ints, mobility_index : Ints, T0 : Ints, alpha : Ints]

(* one evaluation of the right-hand side, lines 37-50 *)
OdeEval ==
    /\ pc = "ode"
    /\ PopulationOf(y) # Whole(0)
    /\ dy' = sirv_ode(y, params)
    /\ pc' = "ode_done"
    /\ UNCHANGED <<y, params>>
    /\ UNCHANGED netVars

(* line 44 with N = 0: the division has no value *)
OdeDivByZero ==
    /\ pc = "ode"
    /\ PopulationOf(y) = Whole(0)
    /\ pc' = "ode_undefined"
    /\ UNCHANGED odeVars
    /\ UNCHANGED netVars


Init ==
    /\ pc = "start"
    /\ G = NoGraph
    /\ in_n = 0 /\ in_frac = 0
    /\ heap = <<>>
    /\ init_status = 0 /\ status0 = 0 /\ curr = 0
    /\ beta = 0 /\ gamma = 0 /\ max_steps = 0
    /\ history = <<>>
    /\ t = 0
    /\ y = NoState /\ params = NoParams /\ dy = NoDeriv

Next ==
    \/ \E n \in 0 .. MaxNodes, p \in Probs, frac \in Probs : Initialize(n, p, frac)
    \/ \E b \in Probs, g \in Probs, m \in 0 .. MaxSteps : RunBegin(b, g, m)
    \/ RunIterate
    \/ RunReturn

Spec == Init /\ [][Next]_vars

(* initialize_network on its own, over a wider range of n *)
NextInit == \E n \in 0 .. MaxInitNodes, p \in ProbArgs, frac \in ProbArgs : Initialize(n, p, frac)

SpecInit == Init /\ [][NextInit]_vars

(* the same program called with arguments outside their documented ranges *)
NextArgs ==
    \/ \E n \in 0 .. MaxNodes, p \in ProbArgs, frac \in ProbArgs : Initialize(n, p, frac)
    \/ \E b \in ProbArgs, g \in ProbArgs : RunBegin(b, g, 0)
    \/ RunIterate
    \/ RunReturn

SpecArgs == Init /\ [][NextArgs]_vars

InitOde ==
    /\ pc = "ode"
    /\ G = NoGraph
    /\ in_n = 0 /\ in_frac = 0
    /\ heap = <<>>
    /\ init_status = 0 /\ status0 = 0 /\ curr = 0
    /\ beta = 0 /\ gamma = 0 /\ max_steps = 0
    /\ history = <<>>
    /\ t = 0
    /\ y \in OdeStates /\ params \in OdeParams /\ dy = NoDeriv

NextOde == OdeEval \/ OdeDivByZero

SpecOde == InitOde /\ [][NextOde]_vars

(* the snapshot stored at history index i (1-based) *)
Snap(i) == heap[history[i]]

TypeOK ==
    /\ pc \in {"start", "initialized", "running", "done", "error", "ode", "ode_done", "ode_undefined"}
    /\ \A i \in 1 .. Len(history) : Snap(i) \in [Nodes -> {"S", "I", "R"}]

(* ======================= properties of the network engine ============== *)
Snaps == 1 .. Len(history)

Returned == pc = "done"

InfectedIn(s) == { node \in DOMAIN s : s[node] = "I" }

(* every visiting order of G.nodes() *)
Orders == { o \in [1 .. G.n -> Nodes] : \A i, j \in 1 .. G.n : o[i] = o[j] => i = j }

(* what a draw of random.random() can decide against a probability x *)
SomeDrawBelow(x) == \E d \in Draws : d < x
SomeDrawNotBelow(x) == \E d \in Draws : ~(d < x)

(* b is a possible result of one step update from a: every decision of    *)
(* the step is taken on a alone                                           *)
IsStepOf(a, b) ==
    \A node \in Nodes :
        LET sources == { nbr \in Neighbors(node) : a[nbr] = "I" /\ b[nbr] = "I" }
        IN  /\ a[node] = "R" => b[node] = "R"
            /\ a[node] = "I" => \/ b[node] = "R" /\ SomeDrawBelow(gamma)
                                \/ b[node] = "I" /\ SomeDrawNotBelow(gamma)
            /\ a[node] = "S" => \/ b[node] = "I" /\ sources # {} /\ SomeDrawBelow(beta)
                                \/ b[node] = "S" /\ (sources = {} \/ SomeDrawNotBelow(beta))

(* C1: in every history, for every node and snapshots i < j, a node that   *)
(* is 'R' at i is 'R' at j, and a node that is 'I' at i is not 'S' at j.   *)
C1_Monotone ==
    Returned =>
        \A i \in Snaps, j \in Snaps : i < j =>
            \A node \in Nodes :
                /\ Snap(i)[node] = "R" => Snap(j)[node] = "R"
                /\ Snap(i)[node] = "I" => Snap(j)[node] # "S"

C1_Witness ==
    /\ Returned
    /\ \E node \in Nodes, i \in Snaps, j \in Snaps, k \in Snaps :
          /\ i < j /\ j < k
          /\ Snap(i)[node] = "S" /\ Snap(j)[node] = "I" /\ Snap(k)[node] = "R"

(* the first snapshot is the state passed in and every later one is a     *)
(* result of the step update applied to the snapshot before it            *)
HistoryIsStepChain ==
    /\ Len(history) >= 1
    /\ Snap(1) = heap[status0]
    /\ \A i \in Snaps : i + 1 \in Snaps => IsStepOf(Snap(i), Snap(i + 1))

(* C2 as stated: run_simulation with max_steps = num_steps returns exactly *)
(* num_steps+1 state maps, element 0 the initial state and element i the   *)
(* step update applied i times.                                            *)
C2_Original ==
    Returned => /\ Len(history) = max_steps + 1
                /\ HistoryIsStepChain

(* C2 amended: the returned sequence has exactly 5*(num_steps+1) state     *)
(* maps, element 0 the initial state and element i the step update applied *)
(* i times.                                                                *)
C2_Amended ==
    Returned => /\ Len(history) = HorizonFactor * (max_steps + 1)
                /\ HistoryIsStepChain

C2_Witness ==
    /\ Returned
    /\ Len(history) = 5 * (max_steps + 1)
    /\ Snap(1) # Snap(2) /\ Snap(2) # Snap(3)

(* C3: with beta = 0 the set of 'I' nodes of snapshot t+1 is a subset of   *)
(* that of snapshot t, and no node that was 'S' initially ever becomes 'I'.*)
C3_ZeroBeta ==
    (Returned /\ beta = 0) =>
        /\ \A i \in Snaps : i + 1 \in Snaps => InfectedIn(Snap(i + 1)) \subseteq InfectedIn(Snap(i))
        /\ \A i \in Snaps, node \in Nodes : heap[status0][node] = "S" => Snap(i)[node] # "I"

C3_Witness ==
    /\ Returned /\ beta = 0
    /\ \E u \in Nodes, v \in Nodes :
          /\ {u, v} \in G.edges
          /\ Snap(1)[u] = "I" /\ Snap(2)[u] = "I" /\ Snap(3)[u] = "R"
          /\ Snap(1)[v] = "S"

InitializedOk == pc \in {"initialized", "running", "done"}

WellFormedInitialStatus(k) ==
    /\ DOMAIN heap[init_status] = NodesOf(in_n)
    /\ Cardinality(InfectedIn(heap[init_status])) = k
    /\ \A node \in NodesOf(in_n) : heap[init_status][node] \in {"S", "I"}

(* C4 as stated: for n >= 1 and init_frac in [0,1], initialize_network     *)
(* returns a state map over all n nodes with exactly                       *)
(* k = max(1, round(init_frac * n)) nodes 'I' and every other node 'S'.    *)
C4_Original ==
    (pc # "start" /\ in_n >= 1 /\ ValidProb(in_frac)) =>
        /\ InitializedOk
        /\ WellFormedInitialStatus(Max(1, RoundDiv(in_frac * in_n, Scale)))

(* C4 amended: for n >= 1 and init_frac in [0,1], initialize_network       *)
(* returns a state map over all n nodes with exactly                       *)
(* k = max(1, int(init_frac * n)) nodes 'I' (the product truncated toward  *)
(* zero, not rounded to nearest) and every other node 'S'.                 *)
C4_Amended ==
    (pc # "start" /\ in_n >= 1 /\ ValidProb(in_frac)) =>
        /\ InitializedOk
        /\ WellFormedInitialStatus(Max(1, TruncDiv(in_frac * in_n, Scale)))

C4_Witness ==
    /\ pc = "initialized" /\ in_n = 3 /\ 2 * in_frac = Scale
    /\ InfectedIn(heap[init_status]) = {1}

(* C5: a call of initialize or run with an initial infected fraction, beta *)
(* or gamma outside [0,1] (or such an edge probability), or of initialize  *)
(* with n = 0, ends in an error state and returns no graph, state map or   *)
(* history.                                                                *)
C5_InvalidRejected ==
    /\ (pc # "start" /\ (in_n = 0 \/ ~ValidProb(in_frac))) =>
          (pc = "error" /\ G = NoGraph /\ init_status = 0)
    /\ (pc \in {"running", "done"} /\ (~ValidProb(beta) \/ ~ValidProb(gamma))) =>
          (pc = "error" /\ history = <<>>)

(* C6: with beta = 1.0 and gamma = 0.0, in snapshot 1 every node 'I' in    *)
(* snapshot 0 is still 'I' and every node 'S' in snapshot 0 with an 'I'    *)
(* neighbour is 'I'; on a complete graph with exactly one initially        *)
(* infected node all nodes are 'I' at step 1.                              *)
C6_FullTransmission ==
    (Returned /\ beta = Scale /\ gamma = 0) =>
        /\ \A node \in Nodes : Snap(1)[node] = "I" => Snap(2)[node] = "I"
        /\ \A node \in Nodes :
              (Snap(1)[node] = "S" /\ \E nbr \in Neighbors(node) : Snap(1)[nbr] = "I")
                  => Snap(2)[node] = "I"
        /\ (G.edges = AllPairs(G.n) /\ Cardinality(InfectedIn(Snap(1))) = 1)
              => InfectedIn(Snap(2)) = Nodes

C6_Witness ==
    /\ Returned /\ beta = Scale /\ gamma = 0
    /\ G.n = MaxNodes /\ G.edges = AllPairs(G.n)
    /\ Cardinality(InfectedIn(Snap(1))) = 1
    /\ InfectedIn(Snap(2)) = Nodes

(* one step from snapshot a to snapshot b: a susceptible node is infected  *)
(* only by a neighbour infected in a that did not recover, and is never    *)
(* recovered in b                                                          *)
FrozenRead(a, b) ==
    \A node \in Nodes :
        /\ (a[node] = "S" /\ b[node] = "I") =>
              \E nbr \in Neighbors(node) : a[nbr] = "I" /\ b[nbr] = "I"
        /\ a[node] = "S" => b[node] # "R"

(* the next snapshots the visiting order o can produce from curr *)
NextSnapshots(o) == StepResults(o, heap[curr], beta, gamma)

(* C8: a node 'S' in snapshot t is 'I' in snapshot t+1 only if a neighbour *)
(* is 'I' in both snapshots (a recovering node infects nobody), a node     *)
(* newly infected in a step neither transmits nor recovers in it, and the  *)
(* set of possible next snapshots is the same for every visiting order.    *)
C8_FrozenStep ==
    /\ Returned => \A i \in Snaps : i + 1 \in Snaps => FrozenRead(Snap(i), Snap(i + 1))
    /\ (pc = "running" /\ t < LoopRange(max_steps)) =>
          Cardinality({ NextSnapshots(o) : o \in Orders }) = 1

C8_Witness ==
    /\ Returned
    /\ \E i \in Snaps, u \in Nodes, v \in Nodes :
          /\ i + 2 \in Snaps
          /\ {u, v} \in G.edges
          /\ Snap(i)[u] = "I" /\ Snap(i)[v] = "S"
          /\ Snap(i + 1)[u] = "R" /\ Snap(i + 1)[v] = "S"

ExistingObjectsKept ==
    pc \in {"initialized", "running"} =>
        /\ \A r \in 1 .. Len(heap) : heap'[r] = heap[r]
        /\ \A i \in Snaps : history'[i] = history[i]
        /\ (pc = "running" => status0' = status0)

(* C9: run_simulation never mutates the state map it was given, and no     *)
(* iteration changes a snapshot already in history or the dict curr: every *)
(* object that exists before a step has the same contents after it.        *)
C9_NoMutation == [][ExistingObjectsKept]_vars

C9_Witness ==
    /\ Returned
    /\ Len(history) >= 2
    /\ Snap(Len(history)) # heap[status0]
    /\ Snap(1) = heap[status0]

DerivSum(d) == RAdd(RAdd(RAdd(d.dSu, d.dSv), d.dI), d.dR)

(* C7: for every state with Su+Sv+I+R # 0 and every parameter set the      *)
(* derivatives sum to 0, and when I = 0 all four derivatives are 0.        *)
C7_Conservation ==
    pc = "ode_done" =>
        /\ DerivSum(dy) = Whole(0)
        /\ y.I = Whole(0) => dy = NoDeriv

C7_Witness ==
    /\ pc = "ode_done"
    /\ dy.dSu # Whole(0) /\ dy.dSv # Whole(0) /\ dy.dR # Whole(0) /\ dy.dI # Whole(0)

====
